---- MODULE Spec2Model ----
(***************************************************************************)
(* Model of the Docmost markdown converter:                                *)
(*   converter_ui/app/utils.py   clean_markdown, create_docmost_zip        *)
(*   converter_ui/app/main.py    handle_upload                             *)
(*   docling_server/main.py      the image records of the conversion reply *)
(* A text is a sequence of one-character strings; a byte is a number in    *)
(* 0..255.                                                                 *)
(***************************************************************************)
EXTENDS Integers, Sequences, FiniteSets

VARIABLES
    \* clean_markdown on its own (SpecClean)
    md_content,         \* the local md_content of clean_markdown
    rule,               \* the next statement of clean_markdown, 6 = returned
    pass,               \* how many times the sanitizer has been entered
    md_before,          \* md_content before the statement that ran last
    md_first,           \* what the first pass returned
    \* one record of state per invocation of handle_upload (Spec, SpecZip)
    pc,                 \* position of the invocation
    reply,              \* what the conversion service answered
    markdown_content,   \* argument of create_docmost_zip
    images,             \* argument of create_docmost_zip
    matches,            \* the image links found in markdown_content
    replaced,           \* what replace_link returned, one text per match so far
    current_image_idx,  \* the nonlocal counter of replace_link
    final_images,       \* dict new_filename -> bytes, in insertion order
    new_markdown,       \* text of document.md
    archive,            \* entries of the returned ZIP, in writing order
    status              \* status code sent to the client, 0 = none yet

cleanVars == <<md_content, rule, pass, md_before, md_first>>
callVars == <<pc, reply, markdown_content, images, matches, replaced, current_image_idx,
              final_images, new_markdown, archive, status>>
vars == <<md_content, rule, pass, md_before, md_first,
          pc, reply, markdown_content, images, matches, replaced, current_image_idx,
          final_images, new_markdown, archive, status>>

-----------------------------------------------------------------------------
(* Texts *)

NL == "\n"

Max(S) == CHOOSE x \in S : \A y \in S : x >= y

RECURSIVE Cat(_)
Cat(parts) ==
    IF parts = <<>> THEN <<>> ELSE Head(parts) \o Cat(Tail(parts))

\* Whether pat stands in t at position p.
StartsWithAt(t, p, pat) ==
    /\ p >= 1
    /\ p + Len(pat) - 1 <= Len(t)
    /\ SubSeq(t, p, p + Len(pat) - 1) = pat

\* Length of the run of ch that starts at p (0 when t[p] is not ch).
RECURSIVE RunLen(_, _, _)
RunLen(t, p, ch) ==
    IF p <= Len(t) /\ t[p] = ch THEN 1 + RunLen(t, p + 1, ch) ELSE 0

\* First position >= p where pat stands, 0 when there is none.
RECURSIVE IndexOf(_, _, _)
IndexOf(t, p, pat) ==
    IF p + Len(pat) - 1 > Len(t) THEN 0
    ELSE IF StartsWithAt(t, p, pat) THEN p
    ELSE IndexOf(t, p + 1, pat)

\* First position >= p of the character ch, 0 when there is none.
RECURSIVE IndexOfChar(_, _, _)
IndexOfChar(t, p, ch) ==
    IF p > Len(t) THEN 0
    ELSE IF t[p] = ch THEN p
    ELSE IndexOfChar(t, p + 1, ch)

\* The same for a lazy ".*?" before pat: "." does not cross a line break.
RECURSIVE IndexOfInLine(_, _, _)
IndexOfInLine(t, p, pat) ==
    IF p + Len(pat) - 1 > Len(t) THEN 0
    ELSE IF StartsWithAt(t, p, pat) THEN p
    ELSE IF t[p] = NL THEN 0
    ELSE IndexOfInLine(t, p + 1, pat)

-----------------------------------------------------------------------------
(* clean_markdown, statement by statement *)

FRONTMATTER_OPEN == <<"-", "-", "-", NL>>

FRONTMATTER_CLOSE == <<NL, "-", "-", "-", NL>>

\* re.sub(r'^---\n.*?\n---\n', '', md_content, flags=re.DOTALL):
\* "^" without MULTILINE is the start of the text only.
strip_frontmatter(t) ==
    IF ~StartsWithAt(t, 1, FRONTMATTER_OPEN) THEN t
    ELSE LET close == IndexOf(t, Len(FRONTMATTER_OPEN) + 1, FRONTMATTER_CLOSE)
         IN  IF close = 0 THEN t
             ELSE SubSeq(t, close + Len(FRONTMATTER_CLOSE), Len(t))

\* First position >= p where a run of three or more line breaks starts, 0
\* when there is none.
RECURSIVE NextBlankRun(_, _)
NextBlankRun(t, p) ==
    IF p > Len(t) THEN 0
    ELSE LET r == RunLen(t, p, NL)
         IN  IF r >= 3 THEN p
             ELSE NextBlankRun(t, p + (IF r = 0 THEN 1 ELSE r))

\* re.sub(r'\n{3,}', '\n\n', md_content), from position p on: the whole run
\* is matched and replaced by two line breaks.
RECURSIVE collapse_from(_, _)
collapse_from(t, p) ==
    LET q == NextBlankRun(t, p)
    IN  IF q = 0 THEN SubSeq(t, p, Len(t))
        ELSE SubSeq(t, p, q - 1) \o <<NL, NL>> \o collapse_from(t, q + RunLen(t, q, NL))

collapse_blank_lines(t) == collapse_from(t, 1)

\* "^" under re.MULTILINE.
AtLineStart(t, p) == p = 1 \/ t[p - 1] = NL

\* The lengths k that (#+) can take at p so that ([^ \n]) matches t[p+k]:
\* the regex engine tries the longest first and backs off one '#' at a time.
HeadingSplits(t, p) ==
    {k \in 1..RunLen(t, p, "#") : p + k <= Len(t) /\ t[p + k] \notin {" ", NL}}

\* First position >= p where ^(#+)([^ \n]) matches, 0 when there is none.
RECURSIVE NextHeading(_, _)
NextHeading(t, p) ==
    IF p > Len(t) THEN 0
    ELSE IF AtLineStart(t, p) /\ t[p] = "#" /\ HeadingSplits(t, p) # {} THEN p
    ELSE NextHeading(t, p + 1)

\* re.sub(r'^(#+)([^ \n])', r'\1 \2', md_content, flags=re.MULTILINE)
RECURSIVE heading_from(_, _)
heading_from(t, p) ==
    LET q == NextHeading(t, p)
    IN  IF q = 0 THEN SubSeq(t, p, Len(t))
        ELSE LET k == Max(HeadingSplits(t, q))
             IN  SubSeq(t, p, q + k - 1) \o <<" ", t[q + k]>> \o heading_from(t, q + k + 1)

fix_heading_space(t) == heading_from(t, 1)

\* First position >= p where <[^>]+> matches, 0 when there is none: a '<'
\* whose next '>' is not the character right after it.
RECURSIVE NextTag(_, _)
NextTag(t, p) ==
    LET open == IndexOfChar(t, p, "<")
    IN  IF open = 0 THEN 0
        ELSE IF IndexOfChar(t, open + 1, ">") > open + 1 THEN open
        ELSE NextTag(t, open + 1)

\* re.sub(r'<[^>]+>', '', md_content): from '<' to the next '>'.
RECURSIVE tags_from(_, _)
tags_from(t, p) ==
    LET q == NextTag(t, p)
    IN  IF q = 0 THEN SubSeq(t, p, Len(t))
        ELSE SubSeq(t, p, q - 1) \o tags_from(t, IndexOfChar(t, q + 1, ">") + 1)

strip_tags(t) == tags_from(t, 1)

WHITESPACE == {" ", NL, "\t", "\r", "\f"}

\* First position >= p that holds no whitespace, Len(t) + 1 when there is none.
RECURSIVE SkipLeft(_, _)
SkipLeft(t, p) ==
    IF p <= Len(t) /\ t[p] \in WHITESPACE THEN SkipLeft(t, p + 1) ELSE p

\* Last position <= p that holds no whitespace, 0 when there is none.
RECURSIVE SkipRight(_, _)
SkipRight(t, p) ==
    IF p >= 1 /\ t[p] \in WHITESPACE THEN SkipRight(t, p - 1) ELSE p

\* str.strip()
strip(t) == SubSeq(t, SkipLeft(t, 1), SkipRight(t, Len(t)))

\* The n-th statement of clean_markdown.
CleanRule(n, t) ==
    CASE n = 1 -> strip_frontmatter(t)
      [] n = 2 -> collapse_blank_lines(t)
      [] n = 3 -> fix_heading_space(t)
      [] n = 4 -> strip_tags(t)
      [] n = 5 -> strip(t)

clean_markdown(t) ==
    strip(strip_tags(fix_heading_space(collapse_blank_lines(strip_frontmatter(t)))))

-----------------------------------------------------------------------------
(* Inputs of the sanitizer *)

MaxTokens == 5

MaxPasses == 2

\* Statements of clean_markdown; rule = RETURNED after the last.
RETURNED == 6

CleanTokens ==
    { <<"#">>, <<" ">>, <<NL>>, <<NL, NL>>, <<"<", "b", ">">>, <<"T">>,
      FRONTMATTER_OPEN }

RECURSIVE TokenSeqs(_, _)
TokenSeqs(T, n) ==
    IF n = 0 THEN { <<>> }
    ELSE LET shorter == TokenSeqs(T, n - 1)
         IN  shorter \cup {s \o tok : s \in shorter, tok \in T}

CleanInputs == TokenSeqs(CleanTokens, MaxTokens)

-----------------------------------------------------------------------------
(* base64, as binascii computes it *)

B64_ALPHABET ==
    << "A", "B", "C", "D", "E", "F", "G", "H", "I", "J", "K", "L", "M",
       "N", "O", "P", "Q", "R", "S", "T", "U", "V", "W", "X", "Y", "Z",
       "a", "b", "c", "d", "e", "f", "g", "h", "i", "j", "k", "l", "m",
       "n", "o", "p", "q", "r", "s", "t", "u", "v", "w", "x", "y", "z",
       "0", "1", "2", "3", "4", "5", "6", "7", "8", "9", "+", "/" >>

B64_PAD == "="

\* The 6-bit value of a character, 64 for a character outside the alphabet.
B64Index(ch) ==
    IF \E i \in 1..Len(B64_ALPHABET) : B64_ALPHABET[i] = ch
    THEN (CHOOSE i \in 1..Len(B64_ALPHABET) : B64_ALPHABET[i] = ch) - 1
    ELSE 64

\* binascii.a2b_base64 without strict_mode: characters outside the alphabet are
\* skipped, a pad that completes a quad ends the input, and input that ends
\* inside a quad is an error.
RECURSIVE a2b_base64(_, _, _, _, _, _)
a2b_base64(s, i, quad_pos, leftchar, pads, out) ==
    IF i > Len(s) THEN [ok |-> quad_pos = 0, data |-> out]
    ELSE IF s[i] = B64_PAD
    THEN IF quad_pos >= 2 /\ quad_pos + pads + 1 >= 4
         THEN [ok |-> TRUE, data |-> out]
         ELSE a2b_base64(s, i + 1, quad_pos, leftchar,
                         IF quad_pos >= 2 THEN pads + 1 ELSE pads, out)
    ELSE LET v == B64Index(s[i])
         IN  IF v >= 64 THEN a2b_base64(s, i + 1, quad_pos, leftchar, pads, out)
             ELSE CASE quad_pos = 0 ->
                         a2b_base64(s, i + 1, 1, v, 0, out)
                    [] quad_pos = 1 ->
                         a2b_base64(s, i + 1, 2, v % 16, 0,
                                    Append(out, (leftchar * 4 + v \div 16) % 256))
                    [] quad_pos = 2 ->
                         a2b_base64(s, i + 1, 3, v % 4, 0,
                                    Append(out, (leftchar * 16 + v \div 4) % 256))
                    [] quad_pos = 3 ->
                         a2b_base64(s, i + 1, 0, 0, 0,
                                    Append(out, (leftchar * 64 + v) % 256))

\* base64.b64decode(s): ok = FALSE stands for binascii.Error being raised.
b64decode(s) == a2b_base64(s, 1, 0, 0, 0, <<>>)

B64Char(v) == B64_ALPHABET[v + 1]

\* base64.b64encode(data)
RECURSIVE b64encode(_)
b64encode(data) ==
    IF data = <<>> THEN <<>>
    ELSE IF Len(data) = 1
    THEN << B64Char(data[1] \div 4), B64Char((data[1] % 4) * 16), B64_PAD, B64_PAD >>
    ELSE IF Len(data) = 2
    THEN << B64Char(data[1] \div 4),
            B64Char((data[1] % 4) * 16 + data[2] \div 16),
            B64Char((data[2] % 16) * 4), B64_PAD >>
    ELSE << B64Char(data[1] \div 4),
            B64Char((data[1] % 4) * 16 + data[2] \div 16),
            B64Char((data[2] % 16) * 4 + data[3] \div 64),
            B64Char(data[3] % 64) >> \o b64encode(SubSeq(data, 4, Len(data)))

-----------------------------------------------------------------------------
(* The image links of a text *)

NoMatch == [start |-> 0, close |-> 0, end |-> 0]

\* img_link_pattern = !\[(.*?)\]\((.*?)\) tried at position s, the first group
\* reaching at least to position from - 1: the first "](" of the line, then the
\* first ")" of the line; when there is none, the first group grows.
RECURSIVE TryGroups(_, _, _)
TryGroups(t, s, from) ==
    LET close == IndexOfInLine(t, from, <<"]", "(">>)
    IN  IF close = 0 THEN NoMatch
        ELSE LET end == IndexOfInLine(t, close + 2, <<")">>)
             IN  IF end # 0 THEN [start |-> s, close |-> close, end |-> end]
                 ELSE TryGroups(t, s, close + 1)

MatchAt(t, s) ==
    IF StartsWithAt(t, s, <<"!", "[">>) THEN TryGroups(t, s, s + 2) ELSE NoMatch

\* img_link_pattern.finditer(t) from position p: matches do not overlap.
RECURSIVE finditer(_, _)
finditer(t, p) ==
    IF p > Len(t) THEN <<>>
    ELSE LET m == MatchAt(t, p)
         IN  IF m.start # 0 THEN <<m>> \o finditer(t, m.end + 1)
             ELSE finditer(t, p + 1)

find_links(t) == finditer(t, 1)

\* match.group(1) and match.group(2)
Group1(t, m) == SubSeq(t, m.start + 2, m.close - 1)

Group2(t, m) == SubSeq(t, m.close + 2, m.end - 1)

\* img_link_pattern.sub: the text between the matches, with the k-th match
\* replaced by repl[k].
RECURSIVE SubFrom(_, _, _, _)
SubFrom(t, ms, repl, p) ==
    IF ms = <<>> THEN SubSeq(t, p, Len(t))
    ELSE SubSeq(t, p, Head(ms).start - 1) \o Head(repl)
           \o SubFrom(t, Tail(ms), Tail(repl), Head(ms).end + 1)

sub(t, ms, repl) == SubFrom(t, ms, repl, 1)

-----------------------------------------------------------------------------
(* replace_link *)

DIGITS == <<"0", "1", "2", "3", "4", "5", "6", "7", "8", "9">>

\* str(n) for n >= 0
RECURSIVE Decimal(_)
Decimal(n) ==
    IF n < 10 THEN <<DIGITS[n + 1]>> ELSE Decimal(n \div 10) \o <<DIGITS[(n % 10) + 1]>>

RECURSIVE ZeroPad(_, _)
ZeroPad(digits, width) ==
    IF Len(digits) >= width THEN digits ELSE ZeroPad(<<"0">> \o digits, width)

\* f"{n:03d}"
Format03d(n) == ZeroPad(Decimal(n), 3)

\* original_filename.split('.')[-1]: what follows the last '.', the whole
\* name when it has none.
RECURSIVE LastPart(_)
LastPart(name) ==
    LET dot == IndexOfChar(name, 1, ".")
    IN  IF dot = 0 THEN name ELSE LastPart(SubSeq(name, dot + 1, Len(name)))

\* new_filename numbering from the counter itself: image_000 comes first.
new_filename_from_zero(idx, ext) ==
    <<"i", "m", "a", "g", "e", "_">> \o Format03d(idx) \o <<".">> \o ext

\* f"image_{current_image_idx + 1:03d}.{ext}"
new_filename(idx, ext) ==
    <<"i", "m", "a", "g", "e", "_">> \o Format03d(idx + 1) \o <<".">> \o ext

IMAGES_DIR == <<"i", "m", "a", "g", "e", "s", "/">>

MISSING_IMAGE == <<"M", "I", "S", "S", "I", "N", "G", "_", "I", "M", "A", "G", "E">>

\* f'![{alt_text}]({target})'
Link(alt_text, target) == <<"!", "[">> \o alt_text \o <<"]", "(">> \o target \o <<")">>

\* final_images[name] = data on a dict kept in insertion order.
DictSet(d, name, data) ==
    IF \E i \in 1..Len(d) : d[i].name = name
    THEN [i \in 1..Len(d) |-> IF d[i].name = name THEN [name |-> name, data |-> data] ELSE d[i]]
    ELSE Append(d, [name |-> name, data |-> data])

\* The slot of replace_link that has a record: the link, the counter and the
\* dict it leaves; raised = TRUE when b64decode raises, before anything is stored.
ResolveLink(alt_text, name, decoded, idx, finals) ==
    IF decoded.ok
    THEN [raised |-> FALSE,
          text |-> Link(alt_text, IMAGES_DIR \o name),
          idx |-> idx + 1,
          finals |-> DictSet(finals, name, decoded.data)]
    ELSE [raised |-> TRUE, text |-> <<>>, idx |-> idx, finals |-> finals]

\* One call of replace_link with the counter at idx.
replace_link(alt_text, imgs, idx, finals) ==
    IF idx < Len(imgs)
    THEN ResolveLink(alt_text,
                     new_filename(idx, LastPart(imgs[idx + 1].filename)),
                     b64decode(imgs[idx + 1].content_base64),
                     idx, finals)
    ELSE [raised |-> FALSE,
          text |-> Link(alt_text, MISSING_IMAGE),
          idx |-> idx,
          finals |-> finals]

-----------------------------------------------------------------------------
(* The image records the conversion service builds (docling_server) *)

UPPER == <<"A", "B", "C", "D", "E", "F", "G", "H", "I", "J", "K", "L", "M",
           "N", "O", "P", "Q", "R", "S", "T", "U", "V", "W", "X", "Y", "Z">>

LOWER == <<"a", "b", "c", "d", "e", "f", "g", "h", "i", "j", "k", "l", "m",
           "n", "o", "p", "q", "r", "s", "t", "u", "v", "w", "x", "y", "z">>

\* str.lower()
lower(t) ==
    [i \in 1..Len(t) |->
        IF \E k \in 1..Len(UPPER) : UPPER[k] = t[i]
        THEN LOWER[CHOOSE k \in 1..Len(UPPER) : UPPER[k] = t[i]]
        ELSE t[i]]

\* The record of the picture at position idx (from 0): image_{idx}.{fmt.lower()}
\* with the base64 text of its bytes.
image_record(idx, pic) ==
    [filename |-> <<"i", "m", "a", "g", "e", "_">> \o Decimal(idx) \o <<".">>
                    \o lower(IF pic.format = <<>> THEN <<"P", "N", "G">> ELSE pic.format),
     content_base64 |-> b64encode(pic.data)]

\* extracted_images: a picture without image data gives no record.
RECURSIVE extract_from(_, _)
extract_from(pictures, idx) ==
    IF idx >= Len(pictures) THEN <<>>
    ELSE (IF pictures[idx + 1].has_image THEN <<image_record(idx, pictures[idx + 1])>> ELSE <<>>)
           \o extract_from(pictures, idx + 1)

extracted_images(pictures) == extract_from(pictures, 0)

\* The JSON body of ConvertDocumentResponse; an absent key is an empty value.
ConvertDocumentResponse(md, pictures) ==
    [document |-> [markdown |-> md, main_text |-> <<>>, images |-> extracted_images(pictures)],
     markdown |-> <<>>]

-----------------------------------------------------------------------------
(* What handle_upload can be answered *)

NumCalls == 2

MaxRefs == 2

Calls == 1..NumCalls

ALTS == <<"a", "b", "c", "d", "e", "f", "g", "h">>

\* "![a](x)" with the i-th alt text
Ref(i) == Link(<<ALTS[i]>>, <<"x">>)

\* n image links, one per line
RefLines(n) == Cat([i \in 1..n |-> Ref(i) \o <<NL>>])

\* The pictures of the converted documents: a document holds the first m of
\* them; the second has no format and is saved as PNG.
PICTURES ==
    << [format |-> <<"J", "P", "E", "G">>, data |-> <<65>>, has_image |-> TRUE],
       [format |-> <<>>, data |-> <<255, 216, 0, 66>>, has_image |-> TRUE] >>

NoData == [document |-> [markdown |-> <<>>, main_text |-> <<>>, images |-> <<>>],
           markdown |-> <<>>]

Unreachable == [kind |-> "unreachable", status_code |-> 0, json_ok |-> FALSE, data |-> NoData]

Answer(code, json_ok, data) ==
    [kind |-> "answer", status_code |-> code, json_ok |-> json_ok, data |-> data]

HTTP_OK == 200

SERVICE_UNAVAILABLE == 503

INTERNAL_SERVER_ERROR == 500

UpstreamErrorCodes == {404, 503}

\* A record whose content is no base64 text.
BAD_RECORD == [filename |-> <<"p", ".", "p", "n", "g">>, content_base64 |-> <<"Q">>]

\* Replies of a service that is not docling_server: a record that does not
\* decode, and the markdown under another key.
ForeignData ==
    { [document |-> [markdown |-> Ref(1), main_text |-> <<>>, images |-> <<BAD_RECORD>>],
       markdown |-> <<>>],
      [document |-> [markdown |-> <<>>, main_text |-> <<>>, images |-> <<>>],
       markdown |-> <<"#", "T">>],
      [document |-> [markdown |-> <<>>, main_text |-> <<"T">>, images |-> <<>>],
       markdown |-> <<>>] }

ServerData ==
    { ConvertDocumentResponse(RefLines(n), SubSeq(PICTURES, 1, m)) :
        n \in 0..MaxRefs, m \in 0..Len(PICTURES) }

Replies ==
    {Unreachable}
    \cup {Answer(code, TRUE, NoData) : code \in UpstreamErrorCodes}
    \cup {Answer(HTTP_OK, FALSE, NoData)}
    \cup {Answer(HTTP_OK, TRUE, d) : d \in ServerData \cup ForeignData}

-----------------------------------------------------------------------------
(* handle_upload *)

NoException == [type |-> "none", status_code |-> 0]

\* What the body of the try block raises for reply r.
TryForward(r) ==
    IF r.kind = "unreachable" THEN [type |-> "RequestError", status_code |-> 0]
    ELSE IF r.status_code # HTTP_OK
    THEN [type |-> "HTTPException", status_code |-> r.status_code]
    ELSE IF ~r.json_ok THEN [type |-> "JSONDecodeError", status_code |-> 0]
    ELSE NoException

\* isinstance: httpx.RequestError, fastapi.HTTPException and
\* json.JSONDecodeError all derive from Exception.
IsInstance(e, cls) == e.type = cls \/ cls = "Exception"

\* The except clauses of the try block, in order.
ExceptStatus(e) ==
    IF IsInstance(e, "RequestError") THEN SERVICE_UNAVAILABLE
    ELSE INTERNAL_SERVER_ERROR

\* Step 2 of handle_upload: where the markdown is taken from.
ResultMarkdown(data) ==
    IF data.document.markdown # <<>> THEN data.document.markdown
    ELSE IF data.markdown # <<>> THEN data.markdown
    ELSE data.document.main_text

RECURSIVE ResolvedUpTo(_)
ResolvedUpTo(c) ==
    IF c = 0 THEN 0 ELSE current_image_idx[c] + ResolvedUpTo(c - 1)

\* CounterOf with one counter for the whole module instead of one per call.
CounterShared(c) == ResolvedUpTo(NumCalls)

\* The counter replace_link reads: a local of the enclosing call.
CounterOf(c) == current_image_idx[c]

DOCUMENT_MD == <<"d", "o", "c", "u", "m", "e", "n", "t", ".", "m", "d">>

\* The entries create_docmost_zip writes: document.md, then the images.
write_zip(md, finals) ==
    <<[name |-> DOCUMENT_MD, data |-> md]>>
      \o [i \in 1..Len(finals) |-> [name |-> IMAGES_DIR \o finals[i].name, data |-> finals[i].data]]

\* Forward for the reply r, e being what the try block raises.
Answered(c, r, e) ==
    /\ reply' = [reply EXCEPT ![c] = r]
    /\ IF e = NoException
       THEN /\ pc' = [pc EXCEPT ![c] = "rewrite"]
            /\ markdown_content' = [markdown_content EXCEPT ![c] = ResultMarkdown(r.data)]
            /\ images' = [images EXCEPT ![c] = r.data.document.images]
            /\ matches' = [matches EXCEPT ![c] = find_links(markdown_content'[c])]
            /\ UNCHANGED status
       ELSE /\ pc' = [pc EXCEPT ![c] = "done"]
            /\ status' = [status EXCEPT ![c] = ExceptStatus(e)]
            /\ UNCHANGED <<markdown_content, images, matches>>

\* The upload is forwarded and answered; on success the markdown and the images
\* are taken from the answer and create_docmost_zip is entered.
Forward(c) ==
    /\ pc[c] = "idle"
    /\ \E r \in Replies : Answered(c, r, TryForward(r))
    /\ UNCHANGED <<replaced, current_image_idx, final_images, new_markdown, archive>>
    /\ UNCHANGED cleanVars

\* ReplaceLink when replace_link gave r.
Replaced(c, r) ==
    IF r.raised
    THEN /\ pc' = [pc EXCEPT ![c] = "done"]
         /\ status' = [status EXCEPT ![c] = INTERNAL_SERVER_ERROR]
         /\ UNCHANGED <<replaced, current_image_idx, final_images>>
    ELSE /\ replaced' = [replaced EXCEPT ![c] = Append(@, r.text)]
         /\ current_image_idx' = [current_image_idx EXCEPT ![c] = r.idx]
         /\ final_images' = [final_images EXCEPT ![c] = r.finals]
         /\ UNCHANGED <<pc, status>>

\* img_link_pattern.sub calls replace_link on the next match; what it raises
\* leaves create_docmost_zip and handle_upload answers 500.
ReplaceLink(c) ==
    /\ pc[c] = "rewrite"
    /\ Len(replaced[c]) < Len(matches[c])
    /\ Replaced(c, replace_link(Group1(markdown_content[c], matches[c][Len(replaced[c]) + 1]),
                                images[c], CounterOf(c), final_images[c]))
    /\ UNCHANGED <<reply, markdown_content, images, matches, new_markdown, archive>>
    /\ UNCHANGED cleanVars

\* After the last match: the rewritten text is sanitized, the ZIP is written
\* and returned to the client.
PackAndRespond(c) ==
    /\ pc[c] = "rewrite"
    /\ Len(replaced[c]) = Len(matches[c])
    /\ new_markdown' = [new_markdown EXCEPT ![c] =
                           clean_markdown(sub(markdown_content[c], matches[c], replaced[c]))]
    /\ archive' = [archive EXCEPT ![c] = write_zip(new_markdown'[c], final_images[c])]
    /\ pc' = [pc EXCEPT ![c] = "done"]
    /\ status' = [status EXCEPT ![c] = HTTP_OK]
    /\ UNCHANGED <<reply, markdown_content, images, matches, replaced, current_image_idx, final_images>>
    /\ UNCHANGED cleanVars

NoCleanCall ==
    /\ md_content = <<>>
    /\ rule = 6
    /\ pass = 0
    /\ md_before = <<>>
    /\ md_first = <<>>

Init ==
    /\ pc = [c \in Calls |-> "idle"]
    /\ reply = [c \in Calls |-> Unreachable]
    /\ markdown_content = [c \in Calls |-> <<>>]
    /\ images = [c \in Calls |-> <<>>]
    /\ matches = [c \in Calls |-> <<>>]
    /\ replaced = [c \in Calls |-> <<>>]
    /\ current_image_idx = [c \in Calls |-> 0]
    /\ final_images = [c \in Calls |-> <<>>]
    /\ new_markdown = [c \in Calls |-> <<>>]
    /\ archive = [c \in Calls |-> <<>>]
    /\ status = [c \in Calls |-> 0]
    /\ NoCleanCall

Next ==
    \E c \in Calls :
        \/ Forward(c)
        \/ ReplaceLink(c)
        \/ PackAndRespond(c)

Spec == Init /\ [][Next]_vars

-----------------------------------------------------------------------------
(* create_docmost_zip on any markdown and any list of image records *)

MaxZipTokens == 3

MaxImages == 2

REF == Link(<<"a">>, <<"x">>)

\* "![b]<i>(y)": an image link once the tag is stripped
REF_TAGGED == <<"!", "[", "b", "]", "<", "i", ">", "(", "y", ")">>

DATA_URI_GIF ==
    <<"d", "a", "t", "a", ":", "i", "m", "a", "g", "e", "/", "g", "i", "f",
      ";", "b", "a", "s", "e", "6", "4", ",">>

DATA_URI_PNG ==
    <<"d", "a", "t", "a", ":", "i", "m", "a", "g", "e", "/", "p", "n", "g",
      ";", "b", "a", "s", "e", "6", "4", ",">>

\* "![c](data:image/gif;base64,R0lG)": the bytes "GIF" inline
INLINE_GIF == Link(<<"c">>, DATA_URI_GIF \o <<"R", "0", "l", "G">>)

\* "![d](data:image/png;base64,Q)": an inline payload that does not decode
INLINE_BAD == Link(<<"d">>, DATA_URI_PNG \o <<"Q">>)

ZipTokens ==
    { REF, REF_TAGGED, INLINE_GIF, INLINE_BAD, <<"<">>, <<">">>,
      FRONTMATTER_OPEN, FRONTMATTER_CLOSE }

ZipMarkdowns == TokenSeqs(ZipTokens, MaxZipTokens)

ZipRecords ==
    { [filename |-> <<"i", "m", "a", "g", "e", "_", "0", ".", "p", "n", "g">>,
       content_base64 |-> <<"Q", "Q", "=", "=">>],
      [filename |-> <<"b", ".", "t", "a", "r", ".", "g", "z">>,
       content_base64 |-> <<"Q", "U", "I", "=">>],
      BAD_RECORD }

RECURSIVE Lists(_, _)
Lists(S, n) ==
    IF n = 0 THEN { <<>> }
    ELSE LET shorter == Lists(S, n - 1)
         IN  shorter \cup {Append(l, x) : l \in shorter, x \in S}

ZipImageLists == Lists(ZipRecords, MaxImages)

\* Call 1 has entered create_docmost_zip with markdown md and records imgs.
InitZip ==
    /\ \E md \in ZipMarkdowns, imgs \in ZipImageLists :
         /\ markdown_content = [c \in Calls |-> IF c = 1 THEN md ELSE <<>>]
         /\ images = [c \in Calls |-> IF c = 1 THEN imgs ELSE <<>>]
         /\ matches = [c \in Calls |-> IF c = 1 THEN find_links(md) ELSE <<>>]
         /\ reply = [c \in Calls |->
                        IF c = 1
                        THEN Answer(HTTP_OK, TRUE,
                                    [document |-> [markdown |-> md, main_text |-> <<>>,
                                                   images |-> imgs],
                                     markdown |-> <<>>])
                        ELSE Unreachable]
    /\ pc = [c \in Calls |-> IF c = 1 THEN "rewrite" ELSE "idle"]
    /\ replaced = [c \in Calls |-> <<>>]
    /\ current_image_idx = [c \in Calls |-> 0]
    /\ final_images = [c \in Calls |-> <<>>]
    /\ new_markdown = [c \in Calls |-> <<>>]
    /\ archive = [c \in Calls |-> <<>>]
    /\ status = [c \in Calls |-> 0]
    /\ NoCleanCall

NextZip ==
    \E c \in Calls :
        \/ ReplaceLink(c)
        \/ PackAndRespond(c)

SpecZip == InitZip /\ [][NextZip]_vars

-----------------------------------------------------------------------------
(* clean_markdown on any text, statement by statement *)

NoCalls ==
    /\ pc = [c \in Calls |-> "idle"]
    /\ reply = [c \in Calls |-> Unreachable]
    /\ markdown_content = [c \in Calls |-> <<>>]
    /\ images = [c \in Calls |-> <<>>]
    /\ matches = [c \in Calls |-> <<>>]
    /\ replaced = [c \in Calls |-> <<>>]
    /\ current_image_idx = [c \in Calls |-> 0]
    /\ final_images = [c \in Calls |-> <<>>]
    /\ new_markdown = [c \in Calls |-> <<>>]
    /\ archive = [c \in Calls |-> <<>>]
    /\ status = [c \in Calls |-> 0]

InitClean ==
    /\ md_content \in CleanInputs
    /\ rule = 1
    /\ pass = 1
    /\ md_before = md_content
    /\ md_first = <<>>
    /\ NoCalls

\* The n-th statement of clean_markdown runs.
Statement(n) ==
    /\ rule = n
    /\ md_before' = md_content
    /\ md_content' = CleanRule(n, md_content)
    /\ rule' = n + 1
    /\ md_first' = IF n = 5 /\ pass = 1 THEN md_content' ELSE md_first
    /\ UNCHANGED pass
    /\ UNCHANGED callVars

StripFrontmatter == Statement(1)

CollapseBlankLines == Statement(2)

FixHeadingSpace == Statement(3)

StripTags == Statement(4)

StripAndReturn == Statement(5)

\* The sanitizer is applied to what it returned.
SanitizeAgain ==
    /\ rule = 6
    /\ pass < MaxPasses
    /\ rule' = 1
    /\ pass' = pass + 1
    /\ md_before' = md_content
    /\ UNCHANGED <<md_content, md_first>>
    /\ UNCHANGED callVars

NextClean ==
    \/ StripFrontmatter
    \/ CollapseBlankLines
    \/ FixHeadingSpace
    \/ StripTags
    \/ StripAndReturn
    \/ SanitizeAgain

SpecClean == InitClean /\ [][NextClean]_vars

-----------------------------------------------------------------------------
(* Properties of clean_markdown (SpecClean) *)

\* C7: the sanitizer is idempotent: applied to what it returned, it returns
\* the same text.
C7_SanitizerIdempotent ==
    (rule = RETURNED /\ pass >= 2) => md_content = md_first

\* The heading-space fix as C8 words it: at a line start, one space after the
\* whole run of '#' when a character other than space and line break follows
\* it, and nothing otherwise.
RECURSIVE HeadingFixAsClaimed(_, _)
HeadingFixAsClaimed(t, p) ==
    IF p > Len(t) THEN <<>>
    ELSE IF AtLineStart(t, p) /\ t[p] = "#"
    THEN SubSeq(t, p, p + RunLen(t, p, "#") - 1)
           \o (IF /\ p + RunLen(t, p, "#") <= Len(t)
                  /\ t[p + RunLen(t, p, "#")] \notin {" ", NL}
               THEN <<" ">> ELSE <<>>)
           \o HeadingFixAsClaimed(t, p + RunLen(t, p, "#"))
    ELSE <<t[p]>> \o HeadingFixAsClaimed(t, p + 1)

\* C8: the heading statement puts exactly one space between a whole run of '#'
\* at a line start and a following character that is neither space nor line
\* break, and changes nothing when a space, a line break or the end follows.
C8_HeadingSpaceFix ==
    rule = 4 => md_content = HeadingFixAsClaimed(md_before, 1)

\* C9: what the sanitizer returns holds no run of three or more line breaks.
C9_NoThreeLineBreaks ==
    rule = RETURNED => \A p \in 1..Len(md_content) : RunLen(md_content, p, NL) < 3

-----------------------------------------------------------------------------
(* Properties of create_docmost_zip and handle_upload *)

\* The call entered create_docmost_zip and returned an archive to the client.
Returned(c) == pc[c] = "done" /\ status[c] = HTTP_OK

\* The targets of the image links of the document.md of call c.
DocumentTargets(c) ==
    {Group2(archive[c][1].data, m) :
        m \in {find_links(archive[c][1].data)[k] : k \in 1..Len(find_links(archive[c][1].data))}}

\* The names of the entries of the archive of call c after document.md.
ImageEntries(c) == {archive[c][i].name : i \in 2..Len(archive[c])}

\* C1: every entry images/<name> of the returned archive is the target of an
\* image link of the final document.md.
C1_NoOrphanImage ==
    \A c \in Calls : Returned(c) => ImageEntries(c) \subseteq DocumentTargets(c)

\* C2: every image link of the final document.md targets an entry of the
\* archive or is the sentinel MISSING_IMAGE.
C2_LinksResolveOrMissing ==
    \A c \in Calls :
        Returned(c) => DocumentTargets(c) \subseteq ImageEntries(c) \cup {MISSING_IMAGE}

\* nnn for 0 <= n < 1000
ThreeDigits(n) ==
    <<DIGITS[((n \div 100) % 10) + 1], DIGITS[((n \div 10) % 10) + 1], DIGITS[(n % 10) + 1]>>

\* What follows the last '.' of a file name (the name itself when it has none).
Suffix(name) ==
    IF \E j \in 1..Len(name) : name[j] = "."
    THEN SubSeq(name, Max({j \in 1..Len(name) : name[j] = "."}) + 1, Len(name))
    ELSE name

\* image_{i:03d}.{suffix of the i-th record's file name}
PositionalName(c, i) ==
    <<"i", "m", "a", "g", "e", "_">> \o ThreeDigits(i) \o <<".">> \o Suffix(images[c][i].filename)

\* The alt text of the i-th image link of the markdown of call c.
AltOf(c, i) == Group1(markdown_content[c], matches[c][i])

\* C3: positional matching: the i-th image link, i <= m records, is rewritten
\* to images/image_{i:03d}.{ext} with its alt text and the decoded content of
\* the i-th record is stored under that name; a link beyond the m-th record
\* gets MISSING_IMAGE with its alt text; the mapping has min(n, m) entries.
\* It holds link by link while the call rewrites, and of all n links once the
\* call has returned.
C3_PositionalMatching ==
    \A c \in Calls :
        /\ Returned(c) => Len(replaced[c]) = Len(matches[c])
        /\ Len(final_images[c]) =
               IF Len(replaced[c]) <= Len(images[c]) THEN Len(replaced[c]) ELSE Len(images[c])
        /\ \A i \in 1..Len(replaced[c]) :
               IF i <= Len(images[c])
               THEN /\ replaced[c][i] = Link(AltOf(c, i), IMAGES_DIR \o PositionalName(c, i))
                    /\ final_images[c][i] =
                           [name |-> PositionalName(c, i),
                            data |-> b64decode(images[c][i].content_base64).data]
               ELSE replaced[c][i] = Link(AltOf(c, i), MISSING_IMAGE)

\* Two calls have returned, one with more links than records (and a record),
\* one with more records than links (and a link); the first decoded its first
\* record to the byte 65.
C3_Witness ==
    \E c, d \in Calls :
        /\ Returned(c) /\ Returned(d)
        /\ Len(matches[c]) > Len(images[c]) /\ Len(images[c]) >= 1
        /\ Len(images[d]) > Len(matches[d]) /\ Len(matches[d]) >= 1
        /\ final_images[c][1].data = <<65>>
        /\ Len(archive[d]) = 1 + Len(matches[d])

\* The value of a digit character.
DigitValue(ch) == (CHOOSE k \in 1..Len(DIGITS) : DIGITS[k] = ch) - 1

RECURSIVE ParseDecimal(_)
ParseDecimal(digits) ==
    IF digits = <<>> THEN 0
    ELSE 10 * ParseDecimal(SubSeq(digits, 1, Len(digits) - 1)) + DigitValue(digits[Len(digits)])

\* The sequence number of a canonical name image_<number>.<ext>.
SequenceNumber(name) == ParseDecimal(SubSeq(name, 7, IndexOfChar(name, 1, ".") - 1))

\* The target of a text ![alt](target).
TargetOfLink(text) ==
    SubSeq(text, IndexOf(text, 1, <<"]", "(">>) + 2, Len(text) - 1)

\* The links rewritten so far that were resolved to an image, in order.
ResolvedTargets(c) ==
    SelectSeq([i \in 1..Len(replaced[c]) |-> TargetOfLink(replaced[c][i])],
              LAMBDA target : target # MISSING_IMAGE)

\* C4: in every call, at every moment, the resolved images are numbered
\* 1, 2, ..., k in the order of their links, all names distinct, whatever the
\* other calls have resolved.
C4_SequenceNumbersLocal ==
    \A c \in Calls :
        /\ Len(final_images[c]) = current_image_idx[c]
        /\ \A k \in 1..Len(final_images[c]) : SequenceNumber(final_images[c][k].name) = k
        /\ \A j, k \in 1..Len(final_images[c]) :
               final_images[c][j].name = final_images[c][k].name => j = k
        /\ ResolvedTargets(c) =
               [k \in 1..Len(final_images[c]) |-> IMAGES_DIR \o final_images[c][k].name]

\* Two calls are rewriting at the same time, one has resolved an image and the
\* other two.
C4_Witness ==
    \E c, d \in Calls :
        /\ c # d
        /\ pc[c] = "rewrite" /\ pc[d] = "rewrite"
        /\ Len(final_images[c]) >= 1
        /\ Len(final_images[d]) >= 2

DATA_IMAGE == <<"d", "a", "t", "a", ":", "i", "m", "a", "g", "e", "/">>

BASE64_MARK == <<";", "b", "a", "s", "e", "6", "4", ",">>

\* The media subtype and the payload of a target data:image/<subtype>;base64,<payload>.
MediaSubtype(target) ==
    SubSeq(target, Len(DATA_IMAGE) + 1, IndexOf(target, 1, BASE64_MARK) - 1)

Payload(target) ==
    SubSeq(target, IndexOf(target, 1, BASE64_MARK) + Len(BASE64_MARK), Len(target))

IsInline(target) ==
    StartsWithAt(target, 1, DATA_IMAGE) /\ IndexOf(target, 1, BASE64_MARK) # 0

WellFormedInline(target) == IsInline(target) /\ b64decode(Payload(target)).ok

\* png->png, jpeg/jpg->jpg, gif->gif, webp->webp, otherwise png
MediaExtension(subtype) ==
    CASE subtype = <<"j", "p", "e", "g">> -> <<"j", "p", "g">>
      [] subtype = <<"j", "p", "g">> -> <<"j", "p", "g">>
      [] subtype = <<"g", "i", "f">> -> <<"g", "i", "f">>
      [] subtype = <<"w", "e", "b", "p">> -> <<"w", "e", "b", "p">>
      [] OTHER -> <<"p", "n", "g">>

TargetOf(c, i) == Group2(markdown_content[c], matches[c][i])

InlineName(c, s) ==
    <<"i", "m", "a", "g", "e", "_">> \o ThreeDigits(s) \o <<".">>
      \o MediaExtension(MediaSubtype(TargetOf(c, s)))

\* C5: with no image list and every link carrying a well-formed inline
\* payload, the s-th link is rewritten to images/image_{s:03d}.{ext} with its
\* alt text, and the entry of that name holds the decoded payload, which
\* encodes back to the payload.
C5_InlineImagesPackaged ==
    \A c \in Calls :
        ( /\ pc[c] = "done"
          /\ images[c] = <<>>
          /\ \A s \in 1..Len(matches[c]) : WellFormedInline(TargetOf(c, s)) )
        => /\ Returned(c)
           /\ \A s \in 1..Len(matches[c]) :
                /\ replaced[c][s] = Link(AltOf(c, s), IMAGES_DIR \o InlineName(c, s))
                /\ \E i \in 2..Len(archive[c]) :
                     /\ archive[c][i].name = IMAGES_DIR \o InlineName(c, s)
                     /\ archive[c][i].data = b64decode(Payload(TargetOf(c, s))).data
                     /\ b64encode(archive[c][i].data) = Payload(TargetOf(c, s))

\* The payload of the i-th link of call c does not decode: its inline payload,
\* or the content of the i-th record.
Malformed(c, i) ==
    \/ IsInline(TargetOf(c, i)) /\ ~b64decode(Payload(TargetOf(c, i))).ok
    \/ i <= Len(images[c]) /\ ~b64decode(images[c][i].content_base64).ok

\* C6: a payload that does not decode never aborts create_docmost_zip: the
\* call returns an archive in which that link reads ![alt](MISSING_IMAGE) and
\* no entry stands for it.
C6_MalformedPayloadIsLocal ==
    \A c \in Calls :
        (pc[c] = "done" /\ TryForward(reply[c]) = NoException) =>
            /\ Returned(c)
            /\ archive[c] # <<>>
            /\ \A i \in 1..Len(matches[c]) :
                   Malformed(c, i) => replaced[c][i] = Link(AltOf(c, i), MISSING_IMAGE)
            /\ Len(final_images[c]) <= Cardinality({i \in 1..Len(matches[c]) : ~Malformed(c, i)})

\* The service was reached and answered with another status code than 200.
ServiceFailed(c) == reply[c].kind = "answer" /\ reply[c].status_code # HTTP_OK

\* C10: a status code other than 200 of the conversion service is passed on
\* to the client and no archive is built; 503 is sent only when the service
\* cannot be reached and 500 only for other unexpected failures.
C10_UpstreamStatusPassedOn ==
    \A c \in Calls :
        pc[c] = "done" =>
            /\ ServiceFailed(c) => status[c] = reply[c].status_code /\ archive[c] = <<>>
            /\ status[c] = SERVICE_UNAVAILABLE => reply[c].kind = "unreachable"
            /\ (status[c] = INTERNAL_SERVER_ERROR /\ reply[c].status_code # INTERNAL_SERVER_ERROR)
                   => ~ServiceFailed(c) /\ reply[c].kind # "unreachable"

====
